---- MODULE Spec2Model ----
(***************************************************************************)
(* Model of src/main.py: the multi-waypoint pipeline process_user_prompt   *)
(* with its helpers extract_waypoints, geocode_address,                    *)
(* find_nearest_place, get_place_details and                               *)
(* get_directions_with_waypoints.                                          *)
(*                                                                         *)
(* One behaviour is one call of process_user_prompt.  The call blocks on   *)
(* each external request, so the run is cut into one step per external     *)
(* request: a step issues the request (appended to the log `requests`),    *)
(* draws the collaborator's response from a small set, and runs the code   *)
(* up to the next request, the return, or the exception.                   *)
(*                                                                         *)
(* Conventions: Python's None / a value is the option record None /        *)
(* Some(v); a dict is a function whose DOMAIN is its key set (Get is       *)
(* dict.get); an f-string is the tuple of its pieces; the loop index i is  *)
(* 0-based as in the code, so waypoints[i] is waypoints[i + 1] here.       *)
(***************************************************************************)
EXTENDS Integers, Sequences, FiniteSets, TLC

\* Longest intent list the extractor is taken to return.
MaxIntents == 3

VARIABLES
    pc,                 \* position in process_user_prompt
    response,           \* line 109: what the LLM call and json.loads yielded
    parsed,             \* line 258: what extract_waypoints returned
    waypoints,          \* line 259
    round_trip,         \* line 260
    notes,              \* line 261
    i,                  \* line 276: loop index (0-based)
    coords_list,        \* line 272
    detailed_waypoints, \* line 273
    loc,                \* line 292: the geocoded location of the current intent
    place_info,         \* lines 302, 327: the place found for the current intent
    requests,           \* every requests.get issued so far, in order, each
                        \* with the answer it got
    compile_args,       \* the lists get_directions_with_waypoints was called with
    directions_resp,    \* line 218: the directions collaborator's answers
    result              \* the returned dict, once pc = "done"

vars == <<pc, response, parsed, waypoints, round_trip, notes, i, coords_list,
          detailed_waypoints, loc, place_info, requests, compile_args,
          directions_resp, result>>

----------------------------------------------------------------------------
\* Python values

None == [some |-> FALSE, v |-> <<>>]
Some(x) == [some |-> TRUE, v |-> x]

EmptyDict == [k \in {} |-> <<>>]

\* dict.get(key, default)
Get(d, key, default) == IF key \in DOMAIN d THEN d[key] ELSE default

\* list[-1]
Last(s) == s[Len(s)]

\* list[1:-1]
Interior(s) == IF Len(s) <= 2 THEN <<>> ELSE SubSeq(s, 2, Len(s) - 1)

----------------------------------------------------------------------------
\* The extractor (the LLM) and extract_waypoints

\* The shapes one element of the "waypoints" array can take.  An element
\* that is no JSON object at all fails at wp["type"] like one without the
\* key, and is covered by the shape without "type".
IntentShapes ==
    { [type |-> "address", value |-> "UTSC"],
      [type |-> "place_type", value |-> "coffee shop"],
      [type |-> "landmark", value |-> "CN Tower"],
      [value |-> "UTSC"],
      [type |-> "address"] }

IntentLists == UNION { [1..n -> IntentShapes] : n \in 0..MaxIntents }

ExtractorNotes == <<"LLM notes">>

\* The JSON objects the LLM may answer with.
LLMObjects ==
    { [waypoints |-> w, round_trip |-> r, extra_notes |-> ExtractorNotes] :
        w \in IntentLists, r \in BOOLEAN }
    \cup { EmptyDict, [round_trip |-> TRUE] }

\* What openai.chat.completions.create + json.loads yield: an exception
\* (transport failure or text that is not JSON), a JSON value that is not
\* an object, or a JSON object.
LLMResponses ==
    { [raises |-> TRUE, isdict |-> FALSE, d |-> EmptyDict],
      [raises |-> FALSE, isdict |-> FALSE, d |-> EmptyDict] }
    \cup { [raises |-> FALSE, isdict |-> TRUE, d |-> o] : o \in LLMObjects }

\* extract_waypoints without its try/except: the failure reaches the caller
extract_waypoints_NoCatch(resp) ==
    [isdict |-> resp.isdict, d |-> resp.d]

extract_waypoints(resp) ==
    IF resp.raises
    THEN [isdict |-> TRUE,
          d |-> [waypoints |-> <<>>, round_trip |-> FALSE,
                 extra_notes |-> <<"Error or invalid JSON from LLM.">>]]
    ELSE [isdict |-> resp.isdict, d |-> resp.d]

----------------------------------------------------------------------------
\* The Google collaborators: what requests.get(...).json() may yield.
\* raises = TRUE stands for every way the call itself fails: a transport
\* error, a body that is not JSON, a body without the keys the code reads.

GeoCoords == { <<43, -79>>, <<44, -80>> }

GeocodeResponses ==
    { [raises |-> TRUE, status |-> "", results |-> <<>>],
      [raises |-> FALSE, status |-> "ZERO_RESULTS", results |-> <<>>] }
    \cup { [raises |-> FALSE, status |-> "OK",
            results |-> << [geometry |-> [location |-> [lat |-> c[1], lng |-> c[2]]]] >>] :
            c \in GeoCoords }

\* lines 144-148
geocode_address(resp) ==
    IF resp.status = "OK"
    THEN LET location == resp.results[1].geometry.location
         IN  Some(<<location.lat, location.lng>>)
    ELSE None

Places ==
    { [geometry |-> [location |-> [lat |-> 45, lng |-> -81]],
       name |-> "Cafe One", vicinity |-> "1 Main St", place_id |-> "pid1"],
      [geometry |-> [location |-> [lat |-> 43, lng |-> -79]],
       name |-> "Cafe Two"] }

NearbyResponses ==
    { [raises |-> TRUE, status |-> "", results |-> <<>>],
      [raises |-> FALSE, status |-> "ZERO_RESULTS", results |-> <<>>],
      [raises |-> FALSE, status |-> "OK", results |-> <<>>] }
    \cup { [raises |-> FALSE, status |-> "OK", results |-> <<p>>] : p \in Places }

\* lines 163-171
find_nearest_place(resp) ==
    IF resp.status = "OK" /\ Len(resp.results) > 0
    THEN LET place == resp.results[1]
         IN  Some([lat |-> place.geometry.location.lat,
                   lng |-> place.geometry.location.lng,
                   name |-> place.name,
                   address |-> Get(place, "vicinity", ""),
                   place_id |-> Get(place, "place_id", "")])
    ELSE None

DetailsResponses ==
    { [raises |-> TRUE, status |-> "", result |-> EmptyDict],
      [raises |-> FALSE, status |-> "NOT_FOUND", result |-> EmptyDict],
      [raises |-> FALSE, status |-> "OK",
       result |-> [opening_hours |-> [weekday_text |-> <<"Monday: 9-5">>],
                   photos |-> << [photo_reference |-> "ref1"] >>]] }

NoDetails == [hours |-> <<>>, photos |-> <<>>]

\* line 189: the photo URL built around one photo reference
PhotoUrl(p) == <<"https://maps.googleapis.com/maps/api/place/photo?maxwidth=400&photo_reference=",
                 p.photo_reference, "&key=">>

\* lines 184-193
get_place_details(resp) ==
    IF resp.status = "OK"
    THEN LET res == resp.result
             photos == Get(res, "photos", <<>>)
         IN  [hours |-> Get(Get(res, "opening_hours", EmptyDict), "weekday_text", <<>>),
              photos |-> [k \in 1..Len(photos) |-> PhotoUrl(photos[k])]]
    ELSE NoDetails

----------------------------------------------------------------------------
\* get_directions_with_waypoints

\* DirectionsParams never setting the "waypoints" parameter
DirectionsParams_NoWaypoints(waypoint_coords_list) ==
    [origin |-> waypoint_coords_list[1],
     destination |-> Last(waypoint_coords_list),
     waypoints |-> <<>>]

\* DirectionsParams slicing the stops as list[0:-1]: the origin is sent
\* again as the first intermediate stop
DirectionsParams_SlicesFromOrigin(waypoint_coords_list) ==
    [origin |-> waypoint_coords_list[1],
     destination |-> Last(waypoint_coords_list),
     waypoints |-> IF Len(waypoint_coords_list) > 2
                   THEN SubSeq(waypoint_coords_list, 1, Len(waypoint_coords_list) - 1)
                   ELSE <<>>]

\* lines 202-216: the request parameters built from the coordinate list
DirectionsParams(waypoint_coords_list) ==
    [origin |-> waypoint_coords_list[1],
     destination |-> Last(waypoint_coords_list),
     waypoints |-> IF Len(waypoint_coords_list) > 2
                   THEN Interior(waypoint_coords_list)
                   ELSE <<>>]

\* The stops a directions request names, in the order the collaborator
\* visits them: origin, the "waypoints" parameter, destination.
Stops(params) == <<params.origin>> \o params.waypoints \o <<params.destination>>

\* The legs of the route the directions collaborator builds for a request:
\* one leg per consecutive pair of stops, each with one step whose
\* instruction is marked up.
RouteLegs(params) ==
    [k \in 1..(Len(Stops(params)) - 1) |->
        [distance |-> [text |-> <<k, "km">>],
         duration |-> [text |-> <<k, "mins">>],
         steps |-> << [html_instructions |-> <<"<b>", "Head north", "</b>">>,
                       distance |-> [text |-> <<k, "m">>]] >>]]

Polylines == { "", "a~l~Fjk~uOwHJy@P" }

DirectionsResponses(params) ==
    { [raises |-> TRUE, status |-> "", routes |-> <<>>],
      [raises |-> FALSE, status |-> "ZERO_RESULTS", routes |-> <<>>] }
    \cup { [raises |-> FALSE, status |-> "OK",
            routes |-> << [overview_polyline |-> [points |-> pl],
                           legs |-> RouteLegs(params)] >>] : pl \in Polylines }

\* line 235: re.sub('<[^<]+?>', '', html) over the pieces of the markup
IsTag(piece) == piece \in {"<b>", "</b>", "<div>", "</div>"}
\* StripTags leaving the markup in the instruction
StripTags_KeepsMarkup(html) == html

StripTags(html) == SelectSeq(html, LAMBDA piece : ~IsTag(piece))

\* lines 234-236: the instruction strings of one leg
LegInstructions(leg) ==
    [k \in 1..Len(leg.steps) |->
        <<StripTags(leg.steps[k].html_instructions), " (",
          leg.steps[k].distance.text, ")">>]

RECURSIVE FlattenInstructions(_)
FlattenInstructions(legs) ==
    IF legs = <<>> THEN <<>>
    ELSE LegInstructions(Head(legs)) \o FlattenInstructions(Tail(legs))

\* lines 219-240: what the function returns for a response
DirectionsResult(resp) ==
    IF resp.status = "OK"
    THEN LET route == resp.routes[1]
         IN  [overview_poly |-> Some(route.overview_polyline.points),
              instructions |-> FlattenInstructions(route.legs),
              legs_metadata |-> [k \in 1..Len(route.legs) |->
                                   [distance |-> route.legs[k].distance.text,
                                    duration |-> route.legs[k].duration.text]]]
    ELSE [overview_poly |-> None, instructions |-> <<>>, legs_metadata |-> <<>>]

\* Python truthiness of the polyline: None and "" are falsy (line 365)
Falsy(poly) == ~poly.some \/ poly.v = ""

----------------------------------------------------------------------------
\* process_user_prompt

\* One logged requests.get: the helper that issued it, the loop index it
\* was issued at, its keyword / address / place id, the coordinates it
\* carried, and how it was answered: "ok", "none" (no match, no place, no
\* route), "empty" (no details) or "raise".
Req(fn, keyword, points, answer) ==
    [fn |-> fn, i |-> i, keyword |-> keyword, points |-> points, answer |-> answer]

Answer(resp, ret) ==
    IF resp.raises THEN "raise" ELSE IF ret.some THEN "ok" ELSE "none"

\* The dict of a return that reports a failure (no "legs" key)
FailureResult(wps, rt, text) ==
    [polyline |-> None, instructions |-> <<>>, waypoints |-> wps,
     round_trip |-> rt, notes |-> text]

Return(r) == pc' = "done" /\ result' = r
Raise == pc' = "raised" /\ UNCHANGED result

InLoop == pc = "loop" /\ i < Len(waypoints)
wp == waypoints[i + 1]
\* lines 277-278 raise KeyError when a key is missing
WellFormed(w) == "type" \in DOMAIN w /\ "value" \in DOMAIN w
wp_type == wp.type
wp_value == wp.value

Init ==
    /\ pc = "start"
    /\ response = [raises |-> FALSE, isdict |-> TRUE, d |-> EmptyDict]
    /\ parsed = [isdict |-> TRUE, d |-> EmptyDict]
    /\ waypoints = <<>>
    /\ round_trip = FALSE
    /\ notes = <<>>
    /\ i = 0
    /\ coords_list = <<>>
    /\ detailed_waypoints = <<>>
    /\ loc = None
    /\ place_info = None
    /\ requests = <<>>
    /\ compile_args = <<>>
    /\ directions_resp = <<>>
    /\ result = EmptyDict

\* lines 258-273: call the extractor, read its three fields, stop on an
\* empty list
Extract ==
    /\ pc = "start"
    /\ \E r \in LLMResponses :
         LET p == extract_waypoints(r) IN
         /\ response' = r
         /\ parsed' = p
         /\ IF ~p.isdict
            THEN \* parsed.get on a list, string or number: AttributeError
                 /\ Raise
                 /\ UNCHANGED <<waypoints, round_trip, notes>>
            ELSE /\ waypoints' = Get(p.d, "waypoints", <<>>)
                 /\ round_trip' = Get(p.d, "round_trip", FALSE)
                 /\ notes' = Get(p.d, "extra_notes", <<"">>)
                 /\ IF waypoints' = <<>>
                    THEN Return(FailureResult(<<>>, FALSE,
                           <<"I couldn't parse any valid stops from your request.">>))
                    ELSE pc' = "loop" /\ UNCHANGED result
    /\ UNCHANGED <<i, coords_list, detailed_waypoints, loc, place_info, requests,
                   compile_args, directions_resp>>

\* lines 277-278: wp["type"] or wp["value"] is missing
IntentRaises ==
    /\ InLoop
    /\ ~WellFormed(wp)
    /\ Raise
    /\ UNCHANGED <<response, compile_args, directions_resp, parsed, waypoints, round_trip, notes,
                   i, coords_list,
                   detailed_waypoints, loc, place_info, requests>>

\* FirstIsPlaceType reporting the extractor's flag instead of False
FirstIsPlaceType_KeepsFlag ==
    /\ InLoop
    /\ WellFormed(wp)
    /\ i = 0 /\ wp_type = "place_type"
    /\ Return(FailureResult(<<>>, round_trip,
         <<"Your first waypoint is a place type, but no origin was provided.">>))
    /\ UNCHANGED <<response, compile_args, directions_resp, parsed, waypoints, round_trip, notes,
                   i, coords_list, detailed_waypoints, loc, place_info, requests>>

\* lines 282-289
FirstIsPlaceType ==
    /\ InLoop
    /\ WellFormed(wp)
    /\ i = 0 /\ wp_type = "place_type"
    /\ Return(FailureResult(<<>>, FALSE,
         <<"Your first waypoint is a place type, but no origin was provided.">>))
    /\ UNCHANGED <<response, compile_args, directions_resp, parsed, waypoints, round_trip, notes,
                   i, coords_list,
                   detailed_waypoints, loc, place_info, requests>>

\* lines 317-325
NoOrigin ==
    /\ InLoop
    /\ WellFormed(wp)
    /\ ~(i = 0 /\ wp_type = "place_type")
    /\ wp_type = "place_type"
    /\ coords_list = <<>>
    /\ Return(FailureResult(<<>>, round_trip,
         <<"No origin available for place search. Please specify an address first.">>))
    /\ UNCHANGED <<response, compile_args, directions_resp, parsed, waypoints, round_trip, notes,
                   i, coords_list,
                   detailed_waypoints, loc, place_info, requests>>

\* SkipIntent rejecting an intent of a type it does not know
SkipIntent_Fails ==
    /\ InLoop
    /\ WellFormed(wp)
    /\ wp_type \notin {"address", "place_type"}
    /\ Return(FailureResult(<<>>, round_trip, <<"Unknown waypoint type: ", wp_type>>))
    /\ UNCHANGED <<response, compile_args, directions_resp, parsed, waypoints,
                   round_trip, notes, i, coords_list, detailed_waypoints, loc,
                   place_info, requests>>

\* lines 291, 317: neither branch is taken, the loop goes on
SkipIntent ==
    /\ InLoop
    /\ WellFormed(wp)
    /\ wp_type \notin {"address", "place_type"}
    /\ i' = i + 1
    /\ UNCHANGED <<pc, response, compile_args, directions_resp, parsed, waypoints, round_trip, notes,
                   coords_list,
                   detailed_waypoints, loc, place_info, requests, result>>

\* lines 308-315
AddressWaypoint(value, location, place_details) ==
    [name |-> value, address |-> value, coordinates |-> location,
     type |-> <<"Address">>,
     hours |-> place_details.hours, photos |-> place_details.photos]

\* lines 340-347
PlaceWaypoint(value, info, place_details) ==
    [name |-> info.name, address |-> info.address,
     coordinates |-> <<info.lat, info.lng>>,
     type |-> <<"Place Type - ", value>>,
     hours |-> place_details.hours, photos |-> place_details.photos]

\* GeocodeFailure reporting round_trip False, as the two early returns do
GeocodeFailure_DropsFlag(value) ==
    FailureResult(<<>>, FALSE, <<"Could not geocode address: ", value>>)

\* lines 293-300: the outcome when the address has no match
GeocodeFailure(value) ==
    FailureResult(<<>>, round_trip, <<"Could not geocode address: ", value>>)

\* NoNearbyPlace returning the waypoints resolved so far
NoNearbyPlace_KeepsWaypoints(value) ==
    FailureResult(detailed_waypoints, round_trip,
                  <<"Could not find a nearby place for: ", value>>)

\* lines 328-335: the outcome when no place is found
NoNearbyPlace(value) ==
    FailureResult(<<>>, round_trip, <<"Could not find a nearby place for: ", value>>)

\* lines 307-315, then the next iteration
AppendAddress(place_details) ==
    /\ coords_list' = Append(coords_list, loc.v)
    /\ detailed_waypoints' =
           Append(detailed_waypoints, AddressWaypoint(wp_value, loc.v, place_details))
    /\ i' = i + 1
    /\ pc' = "loop"

\* Geocode going on with the next intent when the address has no match
Geocode_Continues ==
    /\ InLoop
    /\ WellFormed(wp)
    /\ wp_type = "address"
    /\ \E resp \in GeocodeResponses :
         LET ret == geocode_address(resp) IN
         /\ requests' = Append(requests, Req("geocode", wp_value, <<>>, Answer(resp, ret)))
         /\ IF resp.raises
            THEN Raise /\ UNCHANGED <<loc, i>>
            ELSE IF ~ret.some
            THEN pc' = "loop" /\ i' = i + 1 /\ UNCHANGED <<loc, result>>
            ELSE pc' = "aux_search" /\ loc' = ret /\ UNCHANGED <<result, i>>
    /\ UNCHANGED <<response, compile_args, directions_resp, parsed, waypoints, round_trip, notes,
                   coords_list, detailed_waypoints, place_info>>

\* lines 291-300: geocode the address
Geocode ==
    /\ InLoop
    /\ WellFormed(wp)
    /\ wp_type = "address"
    /\ \E resp \in GeocodeResponses :
         LET ret == geocode_address(resp) IN
         /\ requests' = Append(requests, Req("geocode", wp_value, <<>>, Answer(resp, ret)))
         /\ IF resp.raises
            THEN Raise /\ UNCHANGED loc
            ELSE IF ~ret.some
            THEN Return(GeocodeFailure(wp_value)) /\ UNCHANGED loc
            ELSE pc' = "aux_search" /\ loc' = ret /\ UNCHANGED result
    /\ UNCHANGED <<response, compile_args, directions_resp, parsed, waypoints, round_trip, notes,
                   i, coords_list,
                   detailed_waypoints, place_info>>

\* AuxSearch giving up when the auxiliary search finds nothing
AuxSearch_Terminal ==
    /\ pc = "aux_search"
    /\ \E resp \in NearbyResponses :
         LET ret == find_nearest_place(resp) IN
         /\ requests' = Append(requests,
               Req("nearbysearch", wp_value, <<loc.v>>, Answer(resp, ret)))
         /\ IF resp.raises
            THEN /\ Raise
                 /\ UNCHANGED <<i, coords_list, detailed_waypoints, place_info>>
            ELSE IF ret.some
            THEN /\ pc' = "aux_details"
                 /\ place_info' = ret
                 /\ UNCHANGED <<i, coords_list, detailed_waypoints, result>>
            ELSE /\ Return(NoNearbyPlace(wp_value))
                 /\ UNCHANGED <<i, coords_list, detailed_waypoints, place_info>>
    /\ UNCHANGED <<response, compile_args, directions_resp, parsed, waypoints, round_trip, notes,
                   loc>>

\* lines 302-303 (and 307-315 when nothing is found): the auxiliary
\* nearby search at the geocoded location
AuxSearch ==
    /\ pc = "aux_search"
    /\ \E resp \in NearbyResponses :
         LET ret == find_nearest_place(resp) IN
         /\ requests' = Append(requests,
               Req("nearbysearch", wp_value, <<loc.v>>, Answer(resp, ret)))
         /\ IF resp.raises
            THEN /\ Raise
                 /\ UNCHANGED <<i, coords_list, detailed_waypoints, place_info>>
            ELSE IF ret.some
            THEN /\ pc' = "aux_details"
                 /\ place_info' = ret
                 /\ UNCHANGED <<i, coords_list, detailed_waypoints, result>>
            ELSE /\ AppendAddress(NoDetails)
                 /\ UNCHANGED <<place_info, result>>
    /\ UNCHANGED <<response, compile_args, directions_resp, parsed, waypoints, round_trip, notes,
                   loc>>

\* lines 304-315: the details of the place the auxiliary search found
AuxDetails ==
    /\ pc = "aux_details"
    /\ \E resp \in DetailsResponses :
         /\ requests' = Append(requests,
               Req("details", place_info.v.place_id, <<>>,
                   IF resp.raises THEN "raise"
                   ELSE IF resp.status = "OK" THEN "ok" ELSE "empty"))
         /\ IF resp.raises
            THEN Raise /\ UNCHANGED <<i, coords_list, detailed_waypoints>>
            ELSE AppendAddress(get_place_details(resp)) /\ UNCHANGED result
    /\ UNCHANGED <<response, compile_args, directions_resp, parsed, waypoints, round_trip, notes,
                   loc, place_info>>

\* PlaceSearch searching near the first resolved point
PlaceSearch_FromFirst ==
    /\ InLoop
    /\ WellFormed(wp)
    /\ ~(i = 0 /\ wp_type = "place_type")
    /\ wp_type = "place_type"
    /\ coords_list # <<>>
    /\ \E resp \in NearbyResponses :
         LET ret == find_nearest_place(resp) IN
         /\ requests' = Append(requests,
               Req("nearbysearch", wp_value, <<coords_list[1]>>, Answer(resp, ret)))
         /\ IF resp.raises
            THEN Raise /\ UNCHANGED place_info
            ELSE IF ~ret.some
            THEN Return(NoNearbyPlace(wp_value)) /\ UNCHANGED place_info
            ELSE pc' = "place_details" /\ place_info' = ret /\ UNCHANGED result
    /\ UNCHANGED <<response, compile_args, directions_resp, parsed, waypoints, round_trip, notes,
                   i, coords_list,
                   detailed_waypoints, loc>>

\* lines 326-335: search near the last resolved point
PlaceSearch ==
    /\ InLoop
    /\ WellFormed(wp)
    /\ ~(i = 0 /\ wp_type = "place_type")
    /\ wp_type = "place_type"
    /\ coords_list # <<>>
    /\ \E resp \in NearbyResponses :
         LET ret == find_nearest_place(resp) IN
         /\ requests' = Append(requests,
               Req("nearbysearch", wp_value, <<Last(coords_list)>>, Answer(resp, ret)))
         /\ IF resp.raises
            THEN Raise /\ UNCHANGED place_info
            ELSE IF ~ret.some
            THEN Return(NoNearbyPlace(wp_value)) /\ UNCHANGED place_info
            ELSE pc' = "place_details" /\ place_info' = ret /\ UNCHANGED result
    /\ UNCHANGED <<response, compile_args, directions_resp, parsed, waypoints, round_trip, notes,
                   i, coords_list,
                   detailed_waypoints, loc>>

\* lines 336-347: the details of the place found, then the next iteration
PlaceDetails ==
    /\ pc = "place_details"
    /\ \E resp \in DetailsResponses :
         /\ requests' = Append(requests,
               Req("details", place_info.v.place_id, <<>>,
                   IF resp.raises THEN "raise"
                   ELSE IF resp.status = "OK" THEN "ok" ELSE "empty"))
         /\ IF resp.raises
            THEN Raise /\ UNCHANGED <<i, coords_list, detailed_waypoints>>
            ELSE /\ coords_list' = Append(coords_list, <<place_info.v.lat, place_info.v.lng>>)
                 /\ detailed_waypoints' = Append(detailed_waypoints,
                        PlaceWaypoint(wp_value, place_info.v, get_place_details(resp)))
                 /\ i' = i + 1
                 /\ pc' = "loop"
                 /\ UNCHANGED result
    /\ UNCHANGED <<response, compile_args, directions_resp, parsed, waypoints, round_trip, notes,
                   loc, place_info>>

\* WithRoundTrip closing the loop with the last entry instead of the first
WithRoundTrip_AppendsLast(list) ==
    IF round_trip /\ Len(coords_list) > 0 THEN Append(list, Last(list)) ELSE list

\* WithRoundTrip closing the loop only when two points were resolved
WithRoundTrip_NeedsTwo(list) ==
    IF round_trip /\ Len(coords_list) > 1 THEN Append(list, list[1]) ELSE list

\* lines 350-352: the lists after round-trip handling
WithRoundTrip(list) ==
    IF round_trip /\ Len(coords_list) > 0 THEN Append(list, list[1]) ELSE list

\* NotEnoughWaypoints accepting a single point
NotEnoughWaypoints_One(list) == Len(list) < 1

\* NotEnoughWaypoints asking for more than two points
NotEnoughWaypoints_AtMostTwo(list) == Len(list) <= 2

\* lines 354, 199: the two length checks before the directions request
NotEnoughWaypoints(list) == Len(list) < 2
TooFewCoords(waypoint_coords_list) == Len(waypoint_coords_list) < 2

\* RouteResult returning no waypoints when the directions request fails
RouteResult_NoWaypoints(ret) ==
    IF Falsy(ret.overview_poly)
    THEN FailureResult(<<>>, round_trip,
                       <<"Directions request failed. Please try again.">>)
    ELSE [polyline |-> ret.overview_poly, instructions |-> ret.instructions,
          waypoints |-> detailed_waypoints', round_trip |-> round_trip,
          notes |-> notes, legs |-> ret.legs_metadata]

\* lines 365-383: the return after get_directions_with_waypoints
RouteResult(ret) ==
    IF Falsy(ret.overview_poly)
    THEN FailureResult(detailed_waypoints', round_trip,
                       <<"Directions request failed. Please try again.">>)
    ELSE [polyline |-> ret.overview_poly, instructions |-> ret.instructions,
          waypoints |-> detailed_waypoints', round_trip |-> round_trip,
          notes |-> notes, legs |-> ret.legs_metadata]

\* lines 349-383 with 198-240: after the loop
PostLoop ==
    /\ pc = "loop"
    /\ i = Len(waypoints)
    /\ coords_list' = WithRoundTrip(coords_list)
    /\ detailed_waypoints' = WithRoundTrip(detailed_waypoints)
    /\ IF NotEnoughWaypoints(coords_list')
       THEN /\ Return(FailureResult(<<>>, round_trip,
                   <<"Not enough waypoints to create a route.">>))
            /\ UNCHANGED <<requests, compile_args, directions_resp>>
       ELSE IF TooFewCoords(coords_list')
       THEN \* line 200: return None, [], [] without a request
            /\ compile_args' = Append(compile_args, coords_list')
            /\ Return(RouteResult(
                   [overview_poly |-> None, instructions |-> <<>>, legs_metadata |-> <<>>]))
            /\ UNCHANGED <<requests, directions_resp>>
       ELSE LET params == DirectionsParams(coords_list') IN
            \E resp \in DirectionsResponses(params) :
              /\ compile_args' = Append(compile_args, coords_list')
              /\ directions_resp' = Append(directions_resp, resp)
              /\ requests' = Append(requests,
                    Req("directions", "", Stops(params),
                        IF resp.raises THEN "raise"
                        ELSE IF resp.status = "OK" THEN "ok" ELSE "none"))
              /\ IF resp.raises
                 THEN Raise
                 ELSE Return(RouteResult(DirectionsResult(resp)))
    /\ UNCHANGED <<response, parsed, waypoints, round_trip, notes, i, loc, place_info>>

Next ==
    \/ Extract
    \/ IntentRaises
    \/ FirstIsPlaceType
    \/ NoOrigin
    \/ SkipIntent
    \/ Geocode
    \/ AuxSearch
    \/ AuxDetails
    \/ PlaceSearch
    \/ PlaceDetails
    \/ PostLoop

Spec == Init /\ [][Next]_vars

----------------------------------------------------------------------------
\* The HTTP layer and shorthands for the properties

\* line 428: result.get("legs", [])
Legs(r) == Get(r, "legs", <<>>)

Terminal == pc \in {"done", "raised"}

\* the extractor's round-trip flag, as the LLM gave it
ExtractorFlag == Get(extract_waypoints(response).d, "round_trip", FALSE)

\* every intent is an Address or a PlaceType intent
AllResolvable ==
    \A k \in 1..Len(waypoints) :
        WellFormed(waypoints[k]) /\ waypoints[k].type \in {"address", "place_type"}

\* the loop ran over every intent without returning
LoopCompleted == Terminal /\ Len(waypoints) >= 1 /\ i = Len(waypoints)

DirectionsRequests == { k \in 1..Len(requests) : requests[k].fn = "directions" }

OutcomeKeys == {"polyline", "instructions", "waypoints", "round_trip", "notes"}

----------------------------------------------------------------------------
\* C1: whatever the extractor returns and whatever the collaborators answer,
\* process_user_prompt never ends with an exception raised to the caller and
\* what it returns carries polyline, instructions, waypoints, round_trip and
\* notes.  (Stated as claimed; the code raises.)
C1_NeverRaises ==
    /\ pc # "raised"
    /\ pc = "done" => OutcomeKeys \subseteq DOMAIN result

\* C2: a non-empty intent list whose first intent is a PlaceType ends in the
\* ordering failure: no polyline, no instructions, no waypoints, round_trip
\* False whatever the extractor's flag, notes about the missing origin, and
\* no request issued.
C2_FirstPlaceTypeRejected ==
    ( /\ pc \notin {"start", "loop"}
      /\ response.isdict
      /\ Get(response.d, "waypoints", <<>>) # <<>>
      /\ WellFormed(response.d.waypoints[1])
      /\ response.d.waypoints[1].type = "place_type" )
    => /\ pc = "done"
       /\ result.polyline = None
       /\ result.instructions = <<>>
       /\ result.waypoints = <<>>
       /\ result.round_trip = FALSE
       /\ result.notes =
            <<"Your first waypoint is a place type, but no origin was provided.">>
       /\ requests = <<>>

C2_Witness ==
    /\ pc = "done"
    /\ Len(waypoints) = 3
    /\ waypoints[1].type = "place_type"
    /\ ExtractorFlag = TRUE

\* C3: when all N >= 1 intents resolve and the extractor's round_trip flag
\* is true, the list handed to get_directions_with_waypoints and the
\* waypoints returned both have N + 1 entries and the last entry's
\* coordinates are the first entry's.
C3_RoundTripClosesLoop ==
    (LoopCompleted /\ AllResolvable /\ ExtractorFlag = TRUE)
    => LET n == Len(waypoints) IN
       /\ Len(compile_args) = 1
       /\ Len(compile_args[1]) = n + 1
       /\ compile_args[1][n + 1] = compile_args[1][1]
       /\ pc = "done" =>
            /\ Len(result.waypoints) = n + 1
            /\ result.waypoints[n + 1].coordinates = result.waypoints[1].coordinates
            /\ \A k \in 1..(n + 1) :
                 result.waypoints[k].coordinates = compile_args[1][k]

C3_Witness ==
    /\ pc = "done"
    /\ LoopCompleted /\ AllResolvable /\ ExtractorFlag = TRUE
    /\ Len(waypoints) = 3
    /\ coords_list[1] # coords_list[2]
    /\ coords_list[1] # coords_list[3]

\* C4: an outcome with a polyline has one leg less than it has waypoints
\* (the directions collaborator answering with one leg per consecutive pair
\* of the stops it was asked for).
C4_LegsOneLessThanWaypoints ==
    (pc = "done" /\ result.polyline.some)
    => Len(Legs(result)) = Len(result.waypoints) - 1

C4_Witness ==
    /\ pc = "done"
    /\ result.polyline.some
    /\ Len(result.waypoints) = 4
    /\ Len(Legs(result)) = 3

\* C5: get_directions_with_waypoints is called, and a directions request is
\* issued, only with a coordinate list of at least 2 entries; a run whose
\* list after round-trip handling is shorter issues no directions request.
C5_CompileNeedsTwoPoints ==
    /\ \A k \in 1..Len(compile_args) : Len(compile_args[k]) >= 2
    /\ DirectionsRequests # {} => Len(coords_list) >= 2 /\ compile_args = <<coords_list>>
    /\ (LoopCompleted /\ Len(coords_list) < 2) =>
          DirectionsRequests = {} /\ compile_args = <<>>

C5_Witness ==
    /\ pc = "done"
    /\ LoopCompleted
    /\ Len(coords_list) = 1
    /\ requests # <<>>

\* the requests that report a resolution failure: no geocode match for an
\* Address intent, no place for a PlaceType intent
ResolutionFailures ==
    { k \in 1..Len(requests) :
        /\ requests[k].answer = "none"
        /\ \/ requests[k].fn = "geocode"
           \/ /\ requests[k].fn = "nearbysearch"
              /\ waypoints[requests[k].i + 1].type = "place_type" }

\* the requests a collaborator answered with a failure of any kind: no
\* geocode match, no nearby place, no route
ReportedFailures ==
    { k \in 1..Len(requests) :
        /\ requests[k].answer = "none"
        /\ requests[k].fn \in {"geocode", "nearbysearch", "directions"} }

\* C6: when resolving intent i fails, whatever was resolved before, the run
\* returns no polyline, no instructions, the extractor's round_trip flag,
\* and notes that name the failing intent's value.
C6_ResolutionFailureOutcome ==
    \A k \in ResolutionFailures :
       LET failing == waypoints[requests[k].i + 1] IN
       /\ pc = "done"
       /\ result.polyline = None
       /\ result.instructions = <<>>
       /\ result.round_trip = ExtractorFlag
       /\ result.notes =
            IF requests[k].fn = "geocode"
            THEN <<"Could not geocode address: ", failing.value>>
            ELSE <<"Could not find a nearby place for: ", failing.value>>

C6_Witness ==
    /\ pc = "done"
    /\ ResolutionFailures # {}
    /\ Last(requests).fn = "geocode"
    /\ i = 2
    /\ Len(coords_list) = 2
    /\ ExtractorFlag = TRUE

\* each intent's geocode request and place-search request is issued at most
\* once
NoRetry ==
    \A j, k \in 1..Len(requests) :
       (requests[j].i = requests[k].i /\ requests[j].fn = requests[k].fn
        /\ requests[j].fn \in {"geocode", "nearbysearch"}) => j = k

\* C7 as claimed: no request is repeated, and once any collaborator reports
\* a failure (no geocode match, no nearby place, no route) no further
\* request is issued.
C7_AnyFailureIsTerminal ==
    /\ NoRetry
    /\ \A k \in ReportedFailures : k = Len(requests)

\* C7 as amended: no request is repeated, and once a resolution failure (no
\* geocode match for an Address intent, no place for a PlaceType intent) or
\* a directions failure is reported the run has returned: it is the last
\* request, no later intent is resolved and no directions request follows a
\* resolution failure.  An auxiliary nearby search that finds nothing for a
\* geocoded Address intent is not such a failure.
C7_FirstFailureIsTerminal ==
    /\ NoRetry
    /\ \A k \in ResolutionFailures :
         /\ k = Len(requests)
         /\ pc = "done"
         /\ i = requests[k].i
         /\ Len(coords_list) <= requests[k].i
         /\ DirectionsRequests = {}
    /\ \A k \in DirectionsRequests :
         requests[k].answer = "none" => k = Len(requests) /\ pc = "done"

C7_Witness ==
    /\ pc = "done"
    /\ ResolutionFailures # {}
    /\ i = 1
    /\ Len(waypoints) = 3
    /\ Len(requests) >= 3

\* C8: when the directions request comes back without a usable route, the
\* run returns no polyline, no instructions, no legs, the notes of a failed
\* directions request, and as waypoints the whole resolved list in intent
\* order, closed by the first waypoint when round_trip is true.
C8_DirectionsFailureKeepsWaypoints ==
    (pc = "done" /\ DirectionsRequests # {} /\ ~result.polyline.some)
    => LET n == Len(waypoints)
           wps == result.waypoints IN
       /\ result.instructions = <<>>
       /\ Legs(result) = <<>>
       /\ result.notes = <<"Directions request failed. Please try again.">>
       /\ Len(wps) = Len(compile_args[1])
       /\ \A k \in 1..Len(wps) : wps[k].coordinates = compile_args[1][k]
       /\ ExtractorFlag = TRUE => Last(wps) = wps[1]
       /\ AllResolvable =>
            /\ Len(wps) = n + (IF ExtractorFlag = TRUE THEN 1 ELSE 0)
            /\ \A k \in 1..n :
                 wps[k].type = IF waypoints[k].type = "address"
                               THEN <<"Address">>
                               ELSE <<"Place Type - ", waypoints[k].value>>

C8_Witness ==
    /\ pc = "done"
    /\ DirectionsRequests # {}
    /\ Last(requests).answer = "none"
    /\ AllResolvable
    /\ ExtractorFlag = TRUE
    /\ Len(result.waypoints) = 4

\* C9 as claimed: an outcome without a polyline has no instructions, no
\* waypoints, no legs, and notes that are not empty.
C9_FailureHasEmptyCollections ==
    (pc = "done" /\ ~result.polyline.some)
    => /\ result.instructions = <<>>
       /\ result.waypoints = <<>>
       /\ Legs(result) = <<>>
       /\ result.notes \notin {<<>>, <<"">>}

\* C9 as amended: an outcome without a polyline has no instructions, no
\* legs, and notes that are not empty; its waypoints are empty too, except
\* after a directions request that gave no usable route, where they are
\* the resolved list.
C9_FailureHasEmptyRoute ==
    (pc = "done" /\ ~result.polyline.some)
    => /\ result.instructions = <<>>
       /\ Legs(result) = <<>>
       /\ result.notes \notin {<<>>, <<"">>}
       /\ IF DirectionsRequests = {}
          THEN result.waypoints = <<>>
          ELSE /\ result.waypoints = detailed_waypoints
               /\ Len(result.waypoints) >= 2
               /\ result.notes = <<"Directions request failed. Please try again.">>

C9_Witness ==
    /\ pc = "done"
    /\ ~result.polyline.some
    /\ ResolutionFailures # {}
    /\ Last(requests).fn = "nearbysearch"
    /\ Len(detailed_waypoints) = 2

\* C10: when the extractor call fails, its text is not JSON, or it gives no
\* waypoint intents, nothing is resolved: no request of any kind is issued
\* and the run returns no polyline, no instructions, no waypoints,
\* round_trip False and the notes "I couldn't parse any valid stops from
\* your request.".
C10_NoIntentsNoRequests ==
    ( /\ pc # "start"
      /\ \/ response.raises
         \/ response.isdict /\ Get(response.d, "waypoints", <<>>) = <<>> )
    => /\ pc = "done"
       /\ requests = <<>>
       /\ compile_args = <<>>
       /\ coords_list = <<>>
       /\ result.polyline = None
       /\ result.instructions = <<>>
       /\ result.waypoints = <<>>
       /\ result.round_trip = FALSE
       /\ result.notes = <<"I couldn't parse any valid stops from your request.">>

C10_Witness ==
    /\ pc = "done"
    /\ response.raises
    /\ requests = <<>>

----------------------------------------------------------------------------
\* the types the loop resolves
Resolvable(w) == WellFormed(w) /\ w.type \in {"address", "place_type"}

\* how many of the first n intents the loop resolves when none fails
ResolvedAmong(n) == Cardinality({ j \in 1..n : Resolvable(waypoints[j]) })

\* the requests that resolve an intent: the geocode request of an Address
\* intent, the nearby search of a PlaceType intent
ResolvingRequests ==
    { k \in 1..Len(requests) :
        \/ requests[k].fn = "geocode"
        \/ /\ requests[k].fn = "nearbysearch"
           /\ waypoints[requests[k].i + 1].type = "place_type" }

\* C11: resolution is sequential and carries its context: requests are
\* issued in intent order, the request that resolves intent i is issued
\* only after every earlier Address or PlaceType intent was resolved with
\* success, and a PlaceType intent is searched from the coordinates of the
\* waypoint resolved last before it, not from the first or an older one.
C11_SearchFromLastResolved ==
    /\ \A j, k \in 1..Len(requests) : j < k => requests[j].i <= requests[k].i
    /\ \A k \in ResolvingRequests :
         LET idx == requests[k].i
             m == ResolvedAmong(idx) IN
         /\ \A e \in 1..idx :
              Resolvable(waypoints[e]) =>
                 \E j \in ResolvingRequests :
                    j < k /\ requests[j].i = e - 1 /\ requests[j].answer = "ok"
         /\ Len(coords_list) >= m
         /\ requests[k].fn = "nearbysearch" =>
              m >= 1 /\ requests[k].points = <<coords_list[m]>>

C11_Witness ==
    /\ pc = "place_details"
    /\ i = 2
    /\ Len(coords_list) = 2
    /\ coords_list[1] # coords_list[2]
    /\ Last(requests).fn = "nearbysearch"
    /\ Last(requests).points = <<coords_list[2]>>

\* C12: the stops of the directions request are exactly the resolved
\* waypoints in intent order, closed by the first one when round_trip is
\* true: origin first, destination last, the interior in between, none
\* dropped, repeated or moved.
C12_StopsAreResolvedInOrder ==
    \A k \in DirectionsRequests :
       LET stops == requests[k].points
           n == ResolvedAmong(Len(waypoints)) IN
       /\ stops = coords_list
       /\ Len(stops) = n + (IF ExtractorFlag = TRUE THEN 1 ELSE 0)
       /\ Len(detailed_waypoints) = Len(stops)
       /\ \A m \in 1..Len(stops) : stops[m] = detailed_waypoints[m].coordinates
       /\ ExtractorFlag = TRUE => stops[n + 1] = stops[1]
       \* the m-th stop is what the m-th resolved intent resolved to: an
       \* Address intent's auxiliary search carries its geocoded location,
       \* a PlaceType intent's search starts from the stop before it
       /\ \A q \in 1..Len(requests) :
            LET idx == requests[q].i IN
            requests[q].fn = "nearbysearch" =>
               IF waypoints[idx + 1].type = "address"
               THEN requests[q].points = <<stops[ResolvedAmong(idx + 1)]>>
               ELSE requests[q].points = <<stops[ResolvedAmong(idx)]>>

C12_Witness ==
    /\ pc = "done"
    /\ DirectionsRequests # {}
    /\ Len(Last(requests).points) = 4
    /\ Last(requests).points[2] # Last(requests).points[3]
    /\ Last(requests).points[1] # Last(requests).points[2]

IntentsOfType(t) ==
    { j \in 1..Len(waypoints) : WellFormed(waypoints[j]) /\ waypoints[j].type = t }

RequestsOf(fn, t) ==
    { k \in 1..Len(requests) :
        requests[k].fn = fn /\ requests[k].i + 1 \in IntentsOfType(t) }

\* C13: round-trip handling issues no request.  Once the loop has run over
\* all intents, exactly one geocode request per Address intent and one
\* place search per PlaceType intent have been issued, whatever the
\* round_trip flag, nothing but the one directions request is issued after
\* the loop, and with round_trip true the entry appended is the first
\* resolved waypoint, equal to it in every field.
C13_RoundTripIssuesNoRequest ==
    LoopCompleted =>
       LET n == ResolvedAmong(Len(waypoints)) IN
       /\ Cardinality(RequestsOf("geocode", "address"))
            = Cardinality(IntentsOfType("address"))
       /\ Cardinality(RequestsOf("nearbysearch", "place_type"))
            = Cardinality(IntentsOfType("place_type"))
       /\ \A k \in 1..Len(requests) :
            requests[k].fn # "directions" => requests[k].i < Len(waypoints)
       /\ Cardinality(DirectionsRequests) <= 1
       /\ IF ExtractorFlag = TRUE /\ n >= 1
          THEN /\ Len(detailed_waypoints) = n + 1
               /\ Len(coords_list) = n + 1
               /\ Last(detailed_waypoints) = detailed_waypoints[1]
               /\ Last(coords_list) = coords_list[1]
          ELSE Len(detailed_waypoints) = n /\ Len(coords_list) = n

C13_Witness ==
    /\ pc = "done"
    /\ LoopCompleted
    /\ ExtractorFlag = TRUE
    /\ Len(waypoints) = 2
    /\ Len(detailed_waypoints) = 3
    /\ detailed_waypoints[1].hours # <<>>
    /\ detailed_waypoints[2].hours = <<>>
    /\ detailed_waypoints[3] = detailed_waypoints[1]

\* what the success outcome must carry for the route the collaborator gave
SuccessOutcomeFor(route) ==
    /\ "legs" \in DOMAIN result
    /\ result.polyline = Some(route.overview_polyline.points)
    /\ Len(result.instructions) = Len(route.legs)
    /\ \A k \in 1..Len(route.legs) :
         result.instructions[k] =
            << <<"Head north">>, " (", route.legs[k].steps[1].distance.text, ")" >>
    /\ Len(result.legs) = Len(route.legs)
    /\ \A k \in 1..Len(route.legs) :
         result.legs[k] = [distance |-> route.legs[k].distance.text,
                           duration |-> route.legs[k].duration.text]
    /\ Len(result.waypoints) =
          ResolvedAmong(Len(waypoints)) + (IF ExtractorFlag = TRUE THEN 1 ELSE 0)
    /\ \A k \in 1..Len(result.waypoints) :
         result.waypoints[k].coordinates = Last(requests).points[k]
    /\ result.waypoints = detailed_waypoints
    /\ result.round_trip = ExtractorFlag
    /\ result.notes = Get(response.d, "extra_notes", <<"">>)

\* C14 as claimed: whenever the directions collaborator reports a route,
\* the run returns the success outcome: the collaborator's overview path,
\* the instructions and legs extracted from the route, the resolved list,
\* the extractor's flag and the extractor's notes unchanged.
C14_RouteReportedMeansSuccess ==
    (pc = "done" /\ directions_resp # <<>> /\ directions_resp[1].status = "OK")
    => SuccessOutcomeFor(directions_resp[1].routes[1])

\* C14 as amended: the same whenever the route the collaborator reports has
\* an overview path that is not the empty string.
C14_UsableRouteMeansSuccess ==
    ( /\ pc = "done"
      /\ directions_resp # <<>>
      /\ directions_resp[1].status = "OK"
      /\ directions_resp[1].routes[1].overview_polyline.points # "" )
    => SuccessOutcomeFor(directions_resp[1].routes[1])

C14_Witness ==
    /\ pc = "done"
    /\ directions_resp # <<>>
    /\ directions_resp[1].status = "OK"
    /\ result.polyline.some
    /\ Len(result.instructions) = 3
    /\ result.round_trip = TRUE

\* the auxiliary nearby searches of Address intents that found nothing
AuxNone ==
    { k \in RequestsOf("nearbysearch", "address") : requests[k].answer = "none" }

\* C15: when the auxiliary nearby search of a geocoded Address intent finds
\* nothing, the intent still resolves, to a waypoint labelled "Address"
\* whose name and address are the intent's value, with the geocoded
\* coordinates and no hours or photos; no details request is issued for it
\* and the loop goes on with the next intent.
C15_AuxLookupIsBestEffort ==
    \A k \in AuxNone :
       LET idx == requests[k].i
           m == ResolvedAmong(idx + 1)
           value == waypoints[idx + 1].value IN
       /\ Len(detailed_waypoints) >= m
       /\ detailed_waypoints[m] =
            [name |-> value, address |-> value,
             coordinates |-> requests[k].points[1],
             type |-> <<"Address">>, hours |-> <<>>, photos |-> <<>>]
       /\ coords_list[m] = requests[k].points[1]
       /\ i >= idx + 1
       /\ \A q \in 1..Len(requests) :
            requests[q].fn = "details" => requests[q].i # idx
       /\ (k = Len(requests) /\ pc = "done") => i = Len(waypoints)

C15_Witness ==
    /\ pc = "aux_search"
    /\ i = 1
    /\ AuxNone = {2}
    /\ Len(requests) = 3
    /\ Len(detailed_waypoints) = 1

----------------------------------------------------------------------------
\* One thread runs the call: every blocking request comes back with an
\* answer or an exception and the code goes on, so a step that can be
\* taken is taken.
FairSpec == Spec /\ WF_vars(Next)

\* C16: every run, whatever the intent list and the collaborators'
\* answers, eventually returns an outcome.  (Stated as claimed; a run can
\* end with an exception instead.)
C16_EveryRunReturns == <>(pc = "done")

----------------------------------------------------------------------------
NoOriginNotes ==
    <<"No origin available for place search. Please specify an address first.">>

\* C17: when every intent is an Address or a PlaceType intent, the "No
\* origin available for place search" outcome is never returned: a
\* PlaceType intent at a position i > 0 always finds a resolved waypoint
\* before it, and every place search of such an intent has one to start
\* from.
C17_NoOriginUnreachable ==
    AllResolvable =>
       /\ pc = "done" => result.notes # NoOriginNotes
       /\ (InLoop /\ i > 0 /\ wp_type = "place_type") => coords_list # <<>>
       /\ \A k \in RequestsOf("nearbysearch", "place_type") :
            requests[k].i > 0 /\ ResolvedAmong(requests[k].i) = requests[k].i

C17_Witness ==
    /\ AllResolvable
    /\ InLoop
    /\ i = 2
    /\ wp_type = "place_type"
    /\ waypoints[2].type = "place_type"
    /\ Len(coords_list) = 2

\* the intents whose type is neither "address" nor "place_type"
UnknownIntents ==
    { j \in 1..Len(waypoints) : WellFormed(waypoints[j]) /\ ~Resolvable(waypoints[j]) }

\* C18: an intent of an unknown type is skipped: no request is issued for
\* it, the run never ends at it, it adds no waypoint, and an outcome with a
\* route for a list of N intents with k of them unknown has N - k
\* waypoints, one more when round_trip is true.
C18_UnknownTypeIsSkipped ==
    LET n == Len(waypoints)
        k == Cardinality(UnknownIntents) IN
    /\ \A q \in 1..Len(requests) :
         requests[q].fn # "directions" => requests[q].i + 1 \notin UnknownIntents
    /\ (Terminal /\ i < n) => i + 1 \notin UnknownIntents
    /\ pc \in {"loop", "aux_search", "aux_details", "place_details"} =>
         Len(detailed_waypoints) + Cardinality({ j \in UnknownIntents : j <= i }) = i
    /\ (pc = "done" /\ result.polyline.some) =>
         Len(result.waypoints) = n - k + (IF ExtractorFlag = TRUE THEN 1 ELSE 0)

C18_Witness ==
    /\ pc = "done"
    /\ result.polyline.some
    /\ Len(waypoints) = 3
    /\ UnknownIntents = {2}
    /\ Len(result.waypoints) = 3
    /\ ExtractorFlag = TRUE

NotEnoughNotes == <<"Not enough waypoints to create a route.">>

\* C19: when exactly one waypoint is resolved, a run with round_trip false
\* returns the "Not enough waypoints to create a route." outcome, with no
\* waypoints and without a directions request; a run with round_trip true
\* has the list [A, A], is not rejected, and issues a directions request
\* whose origin and destination are the same coordinate.
C19_SingleWaypoint ==
    (LoopCompleted /\ ResolvedAmong(Len(waypoints)) = 1)
    => IF ExtractorFlag = TRUE
       THEN /\ Len(coords_list) = 2
            /\ coords_list[2] = coords_list[1]
            /\ Len(detailed_waypoints) = 2
            /\ Cardinality(DirectionsRequests) = 1
            /\ Last(requests).fn = "directions"
            /\ Last(requests).points = <<coords_list[1], coords_list[1]>>
            /\ pc = "done" => result.notes # NotEnoughNotes
       ELSE /\ pc = "done"
            /\ result.polyline = None
            /\ result.instructions = <<>>
            /\ result.waypoints = <<>>
            /\ result.notes = NotEnoughNotes
            /\ DirectionsRequests = {}
            /\ compile_args = <<>>

C19_Witness ==
    /\ pc = "done"
    /\ LoopCompleted
    /\ ResolvedAmong(Len(waypoints)) = 1
    /\ ExtractorFlag = TRUE
    /\ result.polyline.some
    /\ Len(result.waypoints) = 2

====
